---------------------------- MODULE Spec2Model ----------------------------
(***************************************************************************)
(* AIOps Fleet Command Center: the collection engine (engine.py), the      *)
(* stand-alone collector (logs_collection.py) and the triage, clustering   *)
(* and fleet-sync logic of the dashboard (app.py).                         *)
(*                                                                         *)
(* Text is modelled as a sequence of atoms (a word, a separator, a stamp): *)
(* a message, a file name and a host identifier are the concatenation of   *)
(* their atoms, and substring / prefix / suffix tests are tests on the     *)
(* atom sequence.                                                          *)
(***************************************************************************)
EXTENDS Integers, Sequences, FiniteSets, TLC

VARIABLES
    row,            \* triage: the row handed to assign_priority
    priority,       \* triage: what assign_priority returned for it
    df,             \* clustering: the frame handed to process_forensic_clusters
    clustered,      \* clustering: what process_forensic_clusters returned
    fs,             \* the local disk: directory -> (file name -> content)
    now,            \* the wall clock: [day, minute]
    call,           \* what the last collector call did and returned
    history,        \* hosts with a run_collection that returned success, per day
    budget,         \* collector calls, and calls struck by a fault, still allowed
    fleet_list,     \* st.session_state.fleet_list
    forensic_data,  \* st.session_state.forensic_data
    total_count,    \* st.session_state.total_count
    sync,           \* the running "Run Fleet Sync" handler: position and locals
    timeline,       \* what the last merge of a folder's batches returned
    score           \* what the last health computation returned

triageVars  == <<row, priority>>
clusterVars == <<df, clustered>>
diskVars    == <<fs, now, call, history, budget>>
fleetVars   == <<fleet_list, forensic_data, total_count, sync>>
analyticsVars == <<timeline, score>>
vars        == <<row, priority, df, clustered, fs, now, call, history, budget,
                 fleet_list, forensic_data, total_count, sync, timeline, score>>

-----------------------------------------------------------------------------
(* Bounds of the model.                                                    *)

MaxMsgLen == 3      \* atoms in a message handed to assign_priority
MaxRows   == 3      \* rows of a frame handed to process_forensic_clusters
MaxClock  == 3      \* readings the clock runs through, two to a day
MaxCalls  == 2      \* collector calls in one behaviour
MaxFaults == 1      \* collector calls struck by a fault in one behaviour
MaxBatchRows == 2   \* rows of one export batch handed to a merger
MaxUrgent == 11     \* URGENT clusters in a stored cluster list that is scored
MaxErrors == 21     \* Error records in a frame handed to the advisor
MaxOthers == 2      \* clusters, or records, of each further priority or level

-----------------------------------------------------------------------------
(* Text helpers.                                                           *)

\* `needle in hay` of Python, on atom sequences.
Contains(hay, needle) ==
    \E i \in 0..(Len(hay) - Len(needle)) :
        SubSeq(hay, i + 1, i + Len(needle)) = needle

\* str.startswith / str.endswith, on atom sequences.
StartsWith(s, p) == Len(p) <= Len(s) /\ SubSeq(s, 1, Len(p)) = p
EndsWith(s, p)   == Len(p) <= Len(s) /\ SubSeq(s, Len(s) - Len(p) + 1, Len(s)) = p

\* str.lower of one atom: the atoms written with capitals map to their
\* lower-case spelling, every other atom is already lower case.
Range(seq) == {seq[i] : i \in 1..Len(seq)}

LowerAtom(a) ==
    CASE a = "Successfully" -> "successfully"
      [] a = "FAILED"       -> "failed"
      [] a = "Disk"         -> "disk"
      [] a = "Idle"         -> "idle"
      [] OTHER              -> a

Lower(s) == [i \in 1..Len(s) |-> LowerAtom(s[i])]

\* A missing cell (NaN / None) of a text column and of the level column.
NaNLevel == "<NaN>"
NaNText  == <<"<NaN>">>

\* str(x) of a message cell: str(float('nan')) is 'nan'.
Str(m) == IF m = NaNText THEN <<"nan">> ELSE m

-----------------------------------------------------------------------------
(* app.py: process_forensic_clusters.assign_priority                        *)

noise_filter ==
    { <<"vss service is shutting down">>,
      <<"idle", " ", "timeout">>,
      <<"successfully">>,
      <<"entering sleep">>,
      <<"hibernate from sleep">> }

killer_keywords ==
    { <<"stopped">>, <<"failed">>, <<"denied">>, <<"critical">>,
      <<"aborted">>, <<"disk", " ", "error">> }

NoiseMatch(msg)  == \E k \in noise_filter : Contains(msg, k)
KillerMatch(msg) == \E k \in killer_keywords : Contains(msg, k)

\* The killer test moved in front of the noise test.
assign_priority_killer_first(r) ==
    LET msg   == Lower(Str(r.Message))
        level == r.LevelDisplayName
    IN  IF level = "Critical" \/ KillerMatch(msg) THEN "URGENT"
        ELSE IF NoiseMatch(msg) THEN "NORMAL"
        ELSE IF level = "Error" THEN "HIGH"
        ELSE IF level = "Warning" THEN "MEDIUM"
        ELSE "NORMAL"

\* The message matched as written, without .lower().
assign_priority_case_sensitive(r) ==
    LET msg   == Str(r.Message)
        level == r.LevelDisplayName
    IN  IF NoiseMatch(msg) THEN "NORMAL"
        ELSE IF level = "Critical" \/ KillerMatch(msg) THEN "URGENT"
        ELSE IF level = "Error" THEN "HIGH"
        ELSE IF level = "Warning" THEN "MEDIUM"
        ELSE "NORMAL"

\* Warning rows fall through to the default.
assign_priority_no_warning(r) ==
    LET msg   == Lower(Str(r.Message))
        level == r.LevelDisplayName
    IN  IF NoiseMatch(msg) THEN "NORMAL"
        ELSE IF level = "Critical" \/ KillerMatch(msg) THEN "URGENT"
        ELSE IF level = "Error" THEN "HIGH"
        ELSE "NORMAL"

assign_priority(r) ==
    LET msg   == Lower(Str(r.Message))
        level == r.LevelDisplayName
    IN  IF NoiseMatch(msg) THEN "NORMAL"
        ELSE IF level = "Critical" \/ KillerMatch(msg) THEN "URGENT"
        ELSE IF level = "Error" THEN "HIGH"
        ELSE IF level = "Warning" THEN "MEDIUM"
        ELSE "NORMAL"

Priorities == {"URGENT", "HIGH", "MEDIUM", "NORMAL"}

-----------------------------------------------------------------------------
(* Ordering of text, as Python compares str: by code point.  AtomOrder     *)
(* lists the atoms of host names, levels and messages in that order.       *)

AtomOrder ==
    << " ", ".", ".evtx", "0901", "0902", "0903", "0904", "1",
       "20260201", "20260202", "20260203", "20260204",
       "Application", "Critical", "Error", "FAILED", "ForwardedEvents",
       "Idle", "Information", "Master_Forensic_Timeline.csv", "Security",
       "Setup", "Successfully", "System",
       "Verbose", "Warning", "_", "_Filtered.csv", "critical", "db",
       "denied", "disk", "entering sleep", "error", "service", "stopped",
       "timeout", "un", "ws7" >>

AtomRank(a) == CHOOSE i \in 1..Len(AtomOrder) : AtomOrder[i] = a

RECURSIVE TextLess(_, _)
TextLess(s, t) ==
    IF t = <<>> THEN FALSE
    ELSE IF s = <<>> THEN TRUE
    ELSE IF Head(s) # Head(t) THEN AtomRank(Head(s)) < AtomRank(Head(t))
    ELSE TextLess(Tail(s), Tail(t))

-----------------------------------------------------------------------------
(* app.py: process_forensic_clusters                                        *)
(* A frame is a sequence of rows; a row is a record of its cells.          *)

\* DataFrame.groupby drops the rows with a missing cell in a key column
\* (dropna=True, the default).
HasNaNKey(r) == r.LevelDisplayName = NaNLevel \/ r.Message = NaNText

GroupKey(r) ==
    [Hostname |-> r.Hostname, Id |-> r.Id,
     LevelDisplayName |-> r.LevelDisplayName, Message |-> r.Message]

\* Group keys come out sorted (sort=True, the default), column by column.
KeyLess(a, b) ==
    IF a.Hostname # b.Hostname THEN TextLess(a.Hostname, b.Hostname)
    ELSE IF a.Id # b.Id THEN a.Id < b.Id
    ELSE IF a.LevelDisplayName # b.LevelDisplayName
         THEN AtomRank(a.LevelDisplayName) < AtomRank(b.LevelDisplayName)
    ELSE TextLess(a.Message, b.Message)

RECURSIVE SortKeys(_)
SortKeys(K) ==
    IF K = {} THEN <<>>
    ELSE LET m == CHOOSE k \in K : \A o \in K \ {k} : KeyLess(k, o)
         IN  <<m>> \o SortKeys(K \ {m})

\* df.groupby([...]).size().reset_index(name='Total_Count')
groupby_size(frame) ==
    LET kept == {i \in 1..Len(frame) : ~HasNaNKey(frame[i])}
        keys == SortKeys({GroupKey(frame[i]) : i \in kept})
    IN  [j \in 1..Len(keys) |->
            [Hostname         |-> keys[j].Hostname,
             Id               |-> keys[j].Id,
             LevelDisplayName |-> keys[j].LevelDisplayName,
             Message          |-> keys[j].Message,
             Total_Count      |->
                 Cardinality({i \in kept : GroupKey(frame[i]) = keys[j]})]]

sort_map(p) ==
    CASE p = "URGENT" -> 0
      [] p = "HIGH"   -> 1
      [] p = "MEDIUM" -> 2
      [] p = "NORMAL" -> 3

\* An order with both columns ascending.
SortsBefore_ascending(a, b) ==
    \/ sort_map(a.Priority) < sort_map(b.Priority)
    \/ /\ sort_map(a.Priority) = sort_map(b.Priority)
       /\ a.Total_Count < b.Total_Count

\* The order of sort_values(by=['sort_idx', 'Total_Count'],
\* ascending=[True, False]).
SortsBefore(a, b) ==
    \/ sort_map(a.Priority) < sort_map(b.Priority)
    \/ /\ sort_map(a.Priority) = sort_map(b.Priority)
       /\ a.Total_Count > b.Total_Count

\* One row put into an already sorted frame, behind the rows it does not
\* sort before (rows that compare equal keep their order).
RECURSIVE InsertSorted(_, _)
InsertSorted(sorted, r) ==
    IF sorted = <<>> THEN <<r>>
    ELSE IF SortsBefore(r, Head(sorted)) THEN <<r>> \o sorted
    ELSE <<Head(sorted)>> \o InsertSorted(Tail(sorted), r)

RECURSIVE sort_values(_)
sort_values(frame) ==
    IF frame = <<>> THEN <<>>
    ELSE InsertSorted(sort_values(SubSeq(frame, 1, Len(frame) - 1)),
                      frame[Len(frame)])

\* The result of process_forensic_clusters: the ordered clusters, or the
\* ValueError of `clustered['Priority'] = clustered.apply(..., axis=1)` on a
\* frame without rows (apply then returns the frame itself, which cannot be
\* set as one column).
process_forensic_clusters(frame) ==
    LET grouped == groupby_size(frame)
        tagged  == [j \in 1..Len(grouped) |->
                      [Hostname         |-> grouped[j].Hostname,
                       Id               |-> grouped[j].Id,
                       LevelDisplayName |-> grouped[j].LevelDisplayName,
                       Message          |-> grouped[j].Message,
                       Total_Count      |-> grouped[j].Total_Count,
                       Priority         |-> assign_priority(grouped[j])]]
    IN  IF Len(grouped) = 0
        THEN [raised |-> TRUE, rows |-> <<>>]
        ELSE [raised |-> FALSE, rows |-> sort_values(tagged)]

-----------------------------------------------------------------------------
(* The environment: the fleet's hosts, their event logs, the local disk.   *)

\* Host identifiers (a name or an address), as atom sequences.
Hosts == { <<"db", ".", "1">>, <<"ws7">> }

\* The administrative shares a host may offer.
Shares == {"C$", "ADMIN$"}

\* The channels whose .evtx file exists in a host's log directory.
RemoteLogs(host) ==
    CASE host = <<"db", ".", "1">> ->
             {"Application", "Security", "Setup", "System", "ForwardedEvents"}
      [] OTHER ->
             {"Application", "Security", "System"}

\* What Get-WinEvent | Select-Object | Export-Csv writes for a channel, as
\* pd.read_csv reads it back (an empty cell reads as NaN).  TimeCreated is
\* still text.
ExportRows(log) ==
    CASE log = "Application" ->
             << [TimeCreated |-> "2/1/2026 9:30:00 AM", Id |-> 1000,
                 LevelDisplayName |-> "Error",
                 Message |-> <<"disk", " ", "error">>] >>
      [] log = "Security" ->
             << [TimeCreated |-> "2/2/2026 8:00:00 AM", Id |-> 4625,
                 LevelDisplayName |-> "Information",
                 Message |-> <<"service", " ", "denied">>] >>
      [] log = "Setup" ->
             << [TimeCreated |-> "", Id |-> 1,
                 LevelDisplayName |-> "Warning",
                 Message |-> <<"Idle", " ", "timeout">>] >>
      [] log = "System" ->
             << [TimeCreated |-> "2/1/2026 8:00:00 AM", Id |-> 6005,
                 LevelDisplayName |-> "Information",
                 Message |-> NaNText] >>
      [] OTHER ->
             << [TimeCreated |-> "2/1/2026 8:00:00 AM", Id |-> 7,
                 LevelDisplayName |-> "Error",
                 Message |-> <<"service">>] >>

\* How a channel's copy or extraction can go wrong:
\*   copy_error    shutil.copy2 raises before a local file exists
\*   exit_nonzero  powershell exits non-zero and writes no CSV
\*   spawn_error   subprocess.run itself raises (OSError)
FaultKinds == {"copy_error", "exit_nonzero", "spawn_error"}

\* The faults of one call, channel -> kind: none, one channel struck, or
\* every channel struck alike (a cause that holds for the whole call).
NoPlan == [l \in {} |-> "ok"]

FaultPlans(logs) ==
    {[l \in {c} |-> k] : c \in logs, k \in FaultKinds}
        \cup {[l \in logs |-> k] : k \in FaultKinds}

Plans(logs, faults_left) ==
    {NoPlan} \cup (IF faults_left > 0 THEN FaultPlans(logs) ELSE {})

PlanCost(plan) == IF DOMAIN plan = {} THEN 0 ELSE 1

Outcome(plan, log) == IF log \in DOMAIN plan THEN plan[log] ELSE "ok"

\* Directories and files.  A directory is a function file name -> content;
\* a CSV's content is its rows, a staged .evtx has no rows.
EmptyDir == [n \in {} |-> <<>>]

Files(disk, dir) == IF dir \in DOMAIN disk THEN disk[dir] ELSE EmptyDir

WriteFile(files, name, content) ==
    [n \in DOMAIN files \cup {name} |-> IF n = name THEN content ELSE files[n]]

RemoveFile(files, name) == [n \in DOMAIN files \ {name} |-> files[n]]

\* os.makedirs(path, exist_ok=True) followed by the directory's new content.
PutDir(disk, dir, files) ==
    [d \in DOMAIN disk \cup {dir} |-> IF d = dir THEN files ELSE disk[d]]

\* datetime.now().strftime("%Y%m%d") and the "%H%M" part of "%Y%m%d_%H%M".
DayStamp(clock)    == "2026020" \o ToString(clock.day)
MinuteStamp(clock) == "090" \o ToString(clock.minute)
NowStamp(clock)    == <<DayStamp(clock), "_", MinuteStamp(clock)>>

\* os.listdir, in name order.
RECURSIVE SortNames(_)
SortNames(N) ==
    IF N = {} THEN <<>>
    ELSE LET m == CHOOSE n \in N : \A o \in N \ {n} : TextLess(n, o)
         IN  <<m>> \o SortNames(N \ {m})

listdir(files) == SortNames(DOMAIN files)

-----------------------------------------------------------------------------
(* engine.py: LogEngine                                                     *)

log_types == <<"Application", "Security", "Setup", "System">>

\* get_host_dir: base_path joined with host.replace(".", "_").
get_host_dir(host) ==
    [i \in 1..Len(host) |-> IF host[i] = "." THEN "_" ELSE host[i]]

\* A resolver that falls back on the first candidate when none exists.
find_remote_path_fallback(shares) ==
    IF "ADMIN$" \in shares /\ "C$" \notin shares THEN "ADMIN$" ELSE "C$"

\* find_remote_path: the first candidate share that exists, or None.
find_remote_path(shares) ==
    IF "C$" \in shares THEN "C$"
    ELSE IF "ADMIN$" \in shares THEN "ADMIN$"
    ELSE "None"

\* A count that takes the batches of every day.
existing_any_day(files, clock) ==
    {f \in DOMAIN files : EndsWith(f, <<"_Filtered.csv">>)}

\* The files the cache check of run_collection counts.
existing(files, clock) ==
    {f \in DOMAIN files :
        StartsWith(f, <<DayStamp(clock)>>) /\ EndsWith(f, <<"_Filtered.csv">>)}

\* A cache test that one batch of today satisfies.
cache_satisfied_by_one(files, clock) ==
    Cardinality(existing(files, clock)) >= 1

\* len(existing) >= len(log_types), line 30.
cache_satisfied(files, clock) ==
    Cardinality(existing(files, clock)) >= Len(log_types)

\* What a run has done so far: the directory's files, the channels whose
\* copy was tried, whose staging copy was made, on which the extraction was
\* invoked and which failed, the batch files Export-Csv wrote, and whether
\* an exception is propagating.
StartRun(files) ==
    [files |-> files, attempted |-> {}, copied |-> {}, extracted |-> {},
     failed |-> {}, skipped |-> {}, written |-> {}, raised |-> FALSE]

\* One pass of the loop body of run_collection (lines 38-49).
engine_channel(acc, host, clock, plan, log) ==
    LET local_evtx == <<log, ".evtx">>
        csv_output == NowStamp(clock) \o <<"_", log, "_Filtered.csv">>
        out        == Outcome(plan, log)
        tried      == [acc EXCEPT !.attempted = @ \cup {log}]
        staged     == [tried EXCEPT !.files = WriteFile(@, local_evtx, <<>>),
                                    !.copied = @ \cup {log},
                                    !.extracted = @ \cup {log}]
    IN  IF log \notin RemoteLogs(host) THEN acc
        ELSE IF out = "copy_error"
             THEN [tried EXCEPT !.failed = @ \cup {log}, !.raised = TRUE]
        ELSE IF out = "spawn_error"
             THEN [staged EXCEPT !.failed = @ \cup {log}, !.raised = TRUE]
        ELSE IF out = "exit_nonzero"
             THEN [staged EXCEPT !.failed = @ \cup {log},
                                 !.files = RemoveFile(@, local_evtx)]
        ELSE [staged EXCEPT
                 !.files = RemoveFile(
                               WriteFile(@, csv_output, ExportRows(log)),
                               local_evtx),
                 !.written = @ \cup {csv_output}]

\* The loop of run_collection from channel i on; an exception ends it.
RECURSIVE engine_loop(_, _, _, _, _)
engine_loop(acc, host, clock, plan, i) ==
    IF i > Len(log_types) \/ acc.raised THEN acc
    ELSE engine_loop(engine_channel(acc, host, clock, plan, log_types[i]),
                     host, clock, plan, i + 1)

\* run_collection(host) on `disk` at `clock`, with the shares the host
\* offers and the faults that strike: the returned triple, the directory's
\* files afterwards and what the run did.
run_collection(disk, clock, host, shares, plan) ==
    LET folder == get_host_dir(host)
        files  == Files(disk, folder)
        remote == find_remote_path(shares)
        done   == engine_loop(StartRun(files), host, clock, plan, 1)
        quiet  == StartRun(files)
    IN  IF cache_satisfied(files, clock)
        THEN [success |-> TRUE, result |-> folder, msg |-> "Local data found",
              cache_hit |-> TRUE, probed |-> FALSE, run |-> quiet]
        ELSE IF remote = "None"
        THEN [success |-> FALSE, result |-> <<"Unreachable">>,
              msg |-> "Cannot connect",
              cache_hit |-> FALSE, probed |-> TRUE, run |-> quiet]
        ELSE IF done.raised
        THEN [success |-> FALSE, result |-> <<"exception">>, msg |-> "raised",
              cache_hit |-> FALSE, probed |-> TRUE, run |-> done]
        ELSE [success |-> TRUE, result |-> folder,
              msg |-> "Logs successfully synchronized",
              cache_hit |-> FALSE, probed |-> TRUE, run |-> done]

\* pd.to_datetime(..., format='mixed', errors='coerce') of one cell: the
\* parsed instant (day * 10 + slot of the day), or NaT.
NaT == -1

to_datetime(text) ==
    CASE text = "2/1/2026 8:00:00 AM" -> 10
      [] text = "2/1/2026 9:30:00 AM" -> 11
      [] text = "2/2/2026 8:00:00 AM" -> 20
      [] OTHER                        -> NaT

\* sort_values('TimeCreated', ascending=False): later first, NaT last.
LaterFirst(a, b) ==
    /\ a.TimeCreated # NaT
    /\ (b.TimeCreated = NaT \/ a.TimeCreated > b.TimeCreated)

RECURSIVE InsertByTime(_, _)
InsertByTime(sorted, r) ==
    IF sorted = <<>> THEN <<r>>
    ELSE IF LaterFirst(r, Head(sorted)) THEN <<r>> \o sorted
    ELSE <<Head(sorted)>> \o InsertByTime(Tail(sorted), r)

RECURSIVE SortByTimeDesc(_)
SortByTimeDesc(frame) ==
    IF frame = <<>> THEN <<>>
    ELSE InsertByTime(SortByTimeDesc(SubSeq(frame, 1, Len(frame) - 1)),
                      frame[Len(frame)])

\* A merge that reads the newest batch only.
ConcatFiles_latest(files, names) ==
    IF names = <<>> THEN <<>> ELSE files[names[Len(names)]]

\* pd.concat of the files' rows, in the order the files are listed.
RECURSIVE ConcatFiles(_, _)
ConcatFiles(files, names) ==
    IF names = <<>> THEN <<>>
    ELSE files[Head(names)] \o ConcatFiles(files, Tail(names))

ParseTimes(frame) ==
    [i \in 1..Len(frame) |->
        [TimeCreated      |-> to_datetime(frame[i].TimeCreated),
         Id               |-> frame[i].Id,
         LevelDisplayName |-> frame[i].LevelDisplayName,
         Message          |-> frame[i].Message]]

\* get_forensics(folder): None when the folder holds no *_Filtered.csv.
get_forensics(files) ==
    LET csv_files == SelectSeq(listdir(files),
                               LAMBDA f : EndsWith(f, <<"_Filtered.csv">>))
    IN  IF csv_files = <<>>
        THEN [none |-> TRUE, rows |-> <<>>]
        ELSE [none |-> FALSE,
              rows |-> SortByTimeDesc(ParseTimes(ConcatFiles(files, csv_files)))]

-----------------------------------------------------------------------------
(* logs_collection.py: the stand-alone collector                            *)

script_log_types ==
    <<"Application", "Security", "Setup", "System", "ForwardedEvents">>

\* The one host the script is configured for.
TARGET_HOST == <<"ws7">>

\* get_host_directory: BASE_STAGING joined with the host as written.  Both
\* programs use C:\logs_collection as their base directory.
get_host_directory(host) == host

\* "already collected today": a file of today's stamp for this channel.
collected_today(files, clock, log) ==
    \E f \in DOMAIN files :
        /\ StartsWith(f, <<DayStamp(clock)>>)
        /\ EndsWith(f, <<"_", log, "_Filtered.csv">>)

\* One pass of the loop body of process_logs_with_timestamps (lines 42-70):
\* every exception of the try block is caught and printed, and the
\* os.remove that ends the try block is skipped by it.
script_channel(acc, host, clock, plan, log) ==
    LET local_evtx == NowStamp(clock) \o <<"_", log, ".evtx">>
        csv_output == NowStamp(clock) \o <<"_", log, "_Filtered.csv">>
        out        == Outcome(plan, log)
        tried      == [acc EXCEPT !.attempted = @ \cup {log}]
        staged     == [tried EXCEPT !.files = WriteFile(@, local_evtx, <<>>),
                                    !.copied = @ \cup {log},
                                    !.extracted = @ \cup {log}]
    IN  IF collected_today(acc.files, clock, log)
        THEN [acc EXCEPT !.skipped = @ \cup {log}]
        ELSE IF log \notin RemoteLogs(host) THEN acc
        ELSE IF out = "copy_error"
             THEN [tried EXCEPT !.failed = @ \cup {log}]
        ELSE IF out \in {"spawn_error", "exit_nonzero"}
             THEN [staged EXCEPT !.failed = @ \cup {log}]
        ELSE [staged EXCEPT
                 !.files = RemoveFile(
                               WriteFile(@, csv_output, ExportRows(log)),
                               local_evtx),
                 !.written = @ \cup {csv_output}]

RECURSIVE script_loop(_, _, _, _, _)
script_loop(acc, host, clock, plan, i) ==
    IF i > Len(script_log_types) THEN acc
    ELSE script_loop(script_channel(acc, host, clock, plan, script_log_types[i]),
                     host, clock, plan, i + 1)

\* process_logs_with_timestamps(remote_path, host, folder) on the folder's
\* files at `clock`.
process_logs_with_timestamps(files, clock, host, plan) ==
    script_loop(StartRun(files), host, clock, plan, 1)

\* An ascending order that compares a missing timestamp like any other.
EarlierFirst_plain(a, b) == a.TimeCreated < b.TimeCreated

Max(a, b) == IF a >= b THEN a ELSE b

\* A stability index without the floor.
stability_unclamped(clusters) ==
    100 - Cardinality({i \in 1..Len(clusters) :
                          clusters[i].Priority = "URGENT"}) * 10

\* app.py lines 145-146: urgents = len(df[df['Priority'] == URGENT]);
\* stability = max(0, 100 - (urgents * 10)).
stability(clusters) ==
    LET urgents == Cardinality({i \in 1..Len(clusters) :
                                   clusters[i].Priority = "URGENT"})
    IN  Max(0, 100 - (urgents * 10))

CountLevel(frame, level) ==
    Cardinality({i \in 1..Len(frame) : frame[i].LevelDisplayName = level})

\* A raw-event score that deducts for Error and Critical records.
health_score_critical(forensic_df) ==
    Max(0, 100 - (CountLevel(forensic_df, "Error") * 5)
               - (CountLevel(forensic_df, "Critical") * 20))

\* expert_remediation_advisor, lines 135-139: the health score it prints.
health_score(forensic_df) ==
    LET error_count   == CountLevel(forensic_df, "Error")
        warning_count == CountLevel(forensic_df, "Warning")
    IN  Max(0, 100 - (error_count * 5) - (warning_count * 2))

\* sort_values(by='TimeCreated'): earlier first, NaT last.
EarlierFirst(a, b) ==
    /\ a.TimeCreated # NaT
    /\ (b.TimeCreated = NaT \/ a.TimeCreated < b.TimeCreated)

RECURSIVE InsertByTimeAsc(_, _)
InsertByTimeAsc(sorted, r) ==
    IF sorted = <<>> THEN <<r>>
    ELSE IF EarlierFirst(r, Head(sorted)) THEN <<r>> \o sorted
    ELSE <<Head(sorted)>> \o InsertByTimeAsc(Tail(sorted), r)

RECURSIVE SortByTimeAsc(_)
SortByTimeAsc(frame) ==
    IF frame = <<>> THEN <<>>
    ELSE InsertByTimeAsc(SortByTimeAsc(SubSeq(frame, 1, Len(frame) - 1)),
                         frame[Len(frame)])

\* The loop of generate_forensic_timeline (lines 172-176): the rows of every
\* file that has rows, with Log_Source = f.split('_')[2], the channel atom
\* of a batch name <day>_<minute>_<channel>_Filtered.csv.
RECURSIVE combined_list(_, _)
combined_list(files, names) ==
    IF names = <<>> THEN <<>>
    ELSE LET f    == Head(names)
             rows == [i \in 1..Len(files[f]) |->
                        [TimeCreated      |-> to_datetime(files[f][i].TimeCreated),
                         Id               |-> files[f][i].Id,
                         LevelDisplayName |-> files[f][i].LevelDisplayName,
                         Message          |-> files[f][i].Message,
                         Log_Source       |-> f[5]]]
         IN  rows \o combined_list(files, Tail(names))

\* generate_forensic_timeline(host_folder): None without rows to merge;
\* else the merged frame sorted by time (master, line 184) and its rows of
\* level Error, Critical or Warning (forensic_df, the value returned and
\* saved as Master_Forensic_Timeline.csv).
generate_forensic_timeline(files) ==
    LET all_files == SelectSeq(listdir(files),
                               LAMBDA f : EndsWith(f, <<"_Filtered.csv">>))
        master    == SortByTimeAsc(combined_list(files, all_files))
    IN  IF master = <<>>
        THEN [none |-> TRUE, master |-> <<>>, rows |-> <<>>]
        ELSE [none |-> FALSE, master |-> master,
              rows |-> SelectSeq(master,
                           LAMBDA r : r.LevelDisplayName
                                        \in {"Error", "Critical", "Warning"})]

-----------------------------------------------------------------------------
(* Values every specification below holds fixed for the parts it leaves out. *)

NoCall ==
    [op |-> "none", host |-> <<>>, folder |-> <<>>, day |-> 0,
     success |-> FALSE, result |-> <<>>, msg |-> "",
     cache_hit |-> FALSE, probed |-> FALSE, reachable |-> FALSE,
     attempted |-> {}, copied |-> {}, extracted |-> {}, failed |-> {},
     skipped |-> {}, raised |-> FALSE, rerun |-> FALSE,
     timeline_same |-> TRUE, staging |-> {}, overwritten |-> {},
     todays |-> 0, fresh |-> {}]

NoSync ==
    [pc |-> "idle", i |-> 0, all_data |-> <<>>, start_day |-> 0,
     end_day |-> 0, log |-> <<>>, status |-> "none"]

TriageIdle  == /\ row = [LevelDisplayName |-> NaNLevel, Message |-> NaNText]
               /\ priority = "none"

ClusterIdle == /\ df = <<>>
               /\ clustered = [done |-> FALSE, raised |-> FALSE, rows |-> <<>>]

DiskInit    == /\ fs = [d \in {} |-> EmptyDir]
               /\ now = [day |-> 1, minute |-> 1]
               /\ call = NoCall
               /\ history = {}
               /\ budget = [calls |-> MaxCalls, faults |-> MaxFaults]

FleetInit   == /\ fleet_list = <<>>
               /\ forensic_data = [set |-> FALSE, rows |-> <<>>]
               /\ total_count = 0
               /\ sync = NoSync

NoTimeline ==
    [op |-> "none", none |-> FALSE, master |-> <<>>, rows |-> <<>>]

NoScore == [op |-> "none", value |-> 100]

AnalyticsIdle == /\ timeline = NoTimeline
                 /\ score = NoScore

-----------------------------------------------------------------------------
(* SpecTriage: assign_priority applied to one (level, message) row.         *)

\* Levels Windows reports, a level in another spelling, and a missing one.
Levels == {"Critical", "Error", "Warning", "Information", "Verbose",
           "critical", NaNLevel}

Atoms == {"Successfully", "stopped", "FAILED", "Idle", " ", "timeout",
          "disk", "error", "un", "service", "denied", "entering sleep"}

RECURSIVE SeqsUpTo(_, _)
SeqsUpTo(S, n) ==
    IF n = 0 THEN {<<>>}
    ELSE LET shorter == SeqsUpTo(S, n - 1)
         IN  shorter \cup {Append(s, a) : s \in {t \in shorter : Len(t) = n - 1}, a \in S}

Messages == SeqsUpTo(Atoms, MaxMsgLen) \cup {NaNText}

TriageInit ==
    /\ row \in [LevelDisplayName : Levels, Message : Messages]
    /\ priority = "none"
    /\ ClusterIdle /\ DiskInit /\ FleetInit /\ AnalyticsIdle

AssignPriority ==
    /\ priority = "none"
    /\ priority' = assign_priority(row)
    /\ UNCHANGED <<row, clusterVars, diskVars, fleetVars, analyticsVars>>

TriageNext == AssignPriority

SpecTriage == TriageInit /\ [][TriageNext]_vars

-----------------------------------------------------------------------------
(* SpecCluster: process_forensic_clusters applied to one merged frame.      *)

ClusterRows ==
    [TimeCreated      : {11},
     Id               : {1, 2},
     LevelDisplayName : {"Error", "Warning", NaNLevel},
     Message          : {<<"disk", " ", "error">>, <<"service">>, NaNText},
     Hostname         : {<<"ws7">>}]

ClusterInit ==
    /\ df \in SeqsUpTo(ClusterRows, MaxRows)
    /\ clustered = [done |-> FALSE, raised |-> FALSE, rows |-> <<>>]
    /\ TriageIdle /\ DiskInit /\ FleetInit /\ AnalyticsIdle

ProcessForensicClusters ==
    /\ ~clustered.done
    /\ LET r == process_forensic_clusters(df)
       IN  clustered' = [done |-> TRUE, raised |-> r.raised, rows |-> r.rows]
    /\ UNCHANGED <<df, triageVars, diskVars, fleetVars, analyticsVars>>

ClusterNext == ProcessForensicClusters

SpecCluster == ClusterInit /\ [][ClusterNext]_vars

-----------------------------------------------------------------------------
(* SpecEngine: the two collectors at work on the local disk.                *)

\* Staged .evtx copies lying in a directory.
Staging(files) == {f \in DOMAIN files : EndsWith(f, <<".evtx">>)}

\* The clock is read at two minutes of a day; Reading numbers the readings.
Reading(clock) == 2 * (clock.day - 1) + clock.minute

\* Time passes: to the day's second minute, or to the next day.
Tick ==
    /\ \/ /\ now.minute = 1
          /\ now' = [now EXCEPT !.minute = 2]
       \/ now' = [day |-> now.day + 1, minute |-> 1]
    /\ Reading(now') <= MaxClock
    /\ UNCHANGED <<fs, call, history, budget>>
    /\ UNCHANGED <<triageVars, clusterVars, fleetVars, analyticsVars>>

\* What a call of run_collection leaves to look at.
EngineCall(host, shares, r, before) ==
    [op |-> "run_collection", host |-> host, folder |-> get_host_dir(host),
     day |-> now.day,
     success |-> r.success, result |-> r.result, msg |-> r.msg,
     cache_hit |-> r.cache_hit, probed |-> r.probed,
     reachable |-> shares # {},
     attempted |-> r.run.attempted, copied |-> r.run.copied,
     extracted |-> r.run.extracted, failed |-> r.run.failed,
     skipped |-> r.run.skipped, raised |-> r.run.raised,
     rerun |-> <<host, now.day>> \in history,
     timeline_same |-> (<<host, now.day>> \in history
                           => get_forensics(before) = get_forensics(r.run.files)),
     staging |-> Staging(r.run.files),
     overwritten |-> r.run.written \cap DOMAIN before,
     todays |-> Cardinality(existing(before, now)),
     fresh |-> {log \in Range(log_types) : collected_today(before, now, log)}]

\* engine.run_collection(host), called on its own.
RunCollection(host) ==
    /\ budget.calls > 0
    /\ \E shares \in SUBSET Shares,
          plan \in Plans(RemoteLogs(host), budget.faults) :
         \E r \in {run_collection(fs, now, host, shares, plan)} :
             /\ fs' = PutDir(fs, get_host_dir(host), r.run.files)
             /\ call' = EngineCall(host, shares, r, Files(fs, get_host_dir(host)))
             /\ history' = IF r.success THEN history \cup {<<host, now.day>>}
                           ELSE history
             /\ budget' = [calls  |-> budget.calls - 1,
                           faults |-> budget.faults - PlanCost(plan)]
    /\ UNCHANGED <<now, triageVars, clusterVars, fleetVars, analyticsVars>>

\* process_logs_with_timestamps(remote_path, host, folder), as __main__
\* calls it once find_remote_path has found the host.
ProcessLogs(host) ==
    /\ budget.calls > 0
    /\ \E plan \in Plans(RemoteLogs(host), budget.faults) :
         \E folder \in {get_host_directory(host)} :
         \E r \in {process_logs_with_timestamps(Files(fs, folder), now, host, plan)} :
             /\ fs' = PutDir(fs, folder, r.files)
             /\ call' = [NoCall EXCEPT
                            !.op = "process_logs_with_timestamps",
                            !.host = host, !.folder = folder, !.day = now.day,
                            !.success = TRUE, !.probed = TRUE, !.reachable = TRUE,
                            !.attempted = r.attempted, !.copied = r.copied,
                            !.extracted = r.extracted, !.failed = r.failed,
                            !.skipped = r.skipped, !.raised = r.raised,
                            !.staging = Staging(r.files),
                            !.overwritten =
                                r.written \cap DOMAIN Files(fs, folder),
                            !.todays =
                                Cardinality(existing(Files(fs, folder), now)),
                            !.fresh =
                                {log \in Range(script_log_types) :
                                    collected_today(Files(fs, folder), now, log)}]
             /\ budget' = [calls  |-> budget.calls - 1,
                           faults |-> budget.faults - PlanCost(plan)]
    /\ UNCHANGED <<now, history, triageVars, clusterVars, fleetVars, analyticsVars>>

EngineInit ==
    TriageIdle /\ ClusterIdle /\ DiskInit /\ FleetInit /\ AnalyticsIdle

EngineNext ==
    \/ Tick
    \/ \E host \in Hosts : RunCollection(host)
    \/ ProcessLogs(TARGET_HOST)

SpecEngine == EngineInit /\ [][EngineNext]_vars

-----------------------------------------------------------------------------
(* SpecFleet: the dashboard session: Fleet Manager and Run Fleet Sync.      *)


\* An "Add to Fleet" that does not test the typed text for emptiness.
AddToFleet_any_text(new_host) ==
    /\ sync.pc = "idle"
    /\ fleet_list' = IF new_host \notin Range(fleet_list)
                     THEN Append(fleet_list, new_host)
                     ELSE fleet_list
    /\ UNCHANGED <<forensic_data, total_count, sync>>
    /\ UNCHANGED <<triageVars, clusterVars, diskVars, analyticsVars>>

\* "Add to Fleet" with the text typed into the input (possibly nothing).
AddToFleet(new_host) ==
    /\ sync.pc = "idle"
    /\ fleet_list' = IF new_host # <<>> /\ new_host \notin Range(fleet_list)
                     THEN Append(fleet_list, new_host)
                     ELSE fleet_list
    /\ UNCHANGED <<forensic_data, total_count, sync>>
    /\ UNCHANGED <<triageVars, clusterVars, diskVars, analyticsVars>>

\* "Remove" on entry i of the list: fleet_list.pop(i), i counted from 0.
Remove(i) ==
    /\ sync.pc = "idle"
    /\ i \in 0..(Len(fleet_list) - 1)
    /\ fleet_list' = SubSeq(fleet_list, 1, i) \o SubSeq(fleet_list, i + 2, Len(fleet_list))
    /\ UNCHANGED <<forensic_data, total_count, sync>>
    /\ UNCHANGED <<triageVars, clusterVars, diskVars, analyticsVars>>

\* df[(df['TimeCreated'] >= start_dt) & (df['TimeCreated'] <= end_dt)] with
\* start_dt the start date at 00:00 and end_dt the end date at 23:59, then
\* df['Hostname'] = host.  A comparison with NaT is False.
FilterAndTag(frame, start_day, end_day, host) ==
    LET kept == SelectSeq(frame,
                    LAMBDA r : /\ r.TimeCreated # NaT
                               /\ r.TimeCreated >= start_day * 10
                               /\ r.TimeCreated <= end_day * 10 + 9)
    IN  [i \in 1..Len(kept) |->
            [TimeCreated      |-> kept[i].TimeCreated,
             Id               |-> kept[i].Id,
             LevelDisplayName |-> kept[i].LevelDisplayName,
             Message          |-> kept[i].Message,
             Hostname         |-> host]]

\* One pass of the fleet loop (lines 121-129) for `host`: what
\* run_collection returned, the frame appended to all_data if any, and
\* whether an exception left the loop: one raised by run_collection, or
\* the TypeError of subscripting the None that get_forensics returned.
\* `todays` is the number of today's batch files the host's directory held
\* when the pass began.
sync_host(r, host, shares, todays, start_day, end_day) ==
    LET merged   == get_forensics(r.run.files)
        crashed  == r.run.raised \/ (r.success /\ merged.none)
        appends  == r.success /\ ~merged.none
    IN  [entry |-> [host |-> host, reachable |-> shares # {},
                    todays |-> todays, cache_hit |-> r.cache_hit,
                    success |-> r.success,
                    result |-> r.result, msg |-> r.msg,
                    failed |-> r.run.failed,
                    none |-> r.success /\ merged.none,
                    raised |-> crashed],
         appends |-> appends,
         frame   |-> IF appends
                     THEN FilterAndTag(merged.rows, start_day, end_day, host)
                     ELSE <<>>]

RECURSIVE ConcatFrames(_)
ConcatFrames(frames) ==
    IF frames = <<>> THEN <<>>
    ELSE Head(frames) \o ConcatFrames(Tail(frames))

\* The faults of one pass of the fleet loop.  An exception of run_collection
\* leaves the loop whichever channel raised it, so the raising faults strike
\* every channel; a non-zero exit of the exporter strikes the first channel
\* of the list or all.
FleetPlans(logs, faults_left) ==
    {NoPlan} \cup
        (IF faults_left > 0
         THEN {[l \in {c} |-> "exit_nonzero"] : c \in logs \cap {log_types[1]}}
                  \cup {[l \in logs |-> k] : k \in FaultKinds}
         ELSE {})

\* "Run Fleet Sync" pressed, with the two dates of the control bar: the
\* end date as preset (today), the start date as preset (yesterday) or
\* moved to today.
SyncStart ==
    /\ sync.pc = "idle"
    /\ fleet_list # <<>>
    /\ budget.calls >= Len(fleet_list)
    /\ \E start_day \in {now.day - 1, now.day}, end_day \in {now.day} :
         sync' = [pc |-> "loop", i |-> 1, all_data |-> <<>>,
                  start_day |-> start_day, end_day |-> end_day,
                  log |-> <<>>, status |-> "running"]
    /\ UNCHANGED <<fleet_list, forensic_data, total_count>>
    /\ UNCHANGED <<triageVars, clusterVars, diskVars, analyticsVars>>

\* The loop body for the next host of the list.
SyncHost ==
    /\ sync.pc = "loop"
    /\ sync.i <= Len(fleet_list)
    /\ \E host \in {fleet_list[sync.i]} :
       \E shares \in SUBSET Shares,
          plan \in FleetPlans(RemoteLogs(host), budget.faults) :
       \E r \in {run_collection(fs, now, host, shares, plan)} :
       \E h \in {sync_host(r, host, shares,
                  Cardinality(existing(Files(fs, get_host_dir(host)), now)),
                  sync.start_day, sync.end_day)} :
          /\ fs' = PutDir(fs, get_host_dir(host), r.run.files)
          /\ budget' = [calls  |-> budget.calls - 1,
                        faults |-> budget.faults - PlanCost(plan)]
          /\ sync' = IF h.entry.raised
                     THEN [NoSync EXCEPT !.status = "raised",
                                         !.log = Append(sync.log, h.entry)]
                     ELSE [sync EXCEPT !.i = @ + 1,
                                       !.log = Append(@, h.entry),
                                       !.all_data = IF h.appends
                                                    THEN Append(@, h.frame)
                                                    ELSE @]
    /\ UNCHANGED <<now, call, history, fleet_list, forensic_data, total_count>>
    /\ UNCHANGED <<triageVars, clusterVars, analyticsVars>>

\* An end of the handler that clears the stored results when no host gave
\* data.
SyncFinish_clear_on_no_data ==
    /\ sync.pc = "loop"
    /\ sync.i > Len(fleet_list)
    /\ \E master_df \in {ConcatFrames(sync.all_data)} :
       \E res \in {process_forensic_clusters(master_df)} :
          IF sync.all_data = <<>>
          THEN /\ sync' = [NoSync EXCEPT !.status = "no_data",
                                         !.log = sync.log]
               /\ forensic_data' = [set |-> FALSE, rows |-> <<>>]
               /\ total_count' = 0
          ELSE IF res.raised
          THEN /\ sync' = [NoSync EXCEPT !.status = "raised",
                                         !.log = sync.log]
               /\ UNCHANGED <<forensic_data, total_count>>
          ELSE /\ sync' = [NoSync EXCEPT !.status = "complete",
                                         !.log = sync.log]
               /\ forensic_data' = [set |-> TRUE, rows |-> res.rows]
               /\ total_count' = Len(master_df)
    /\ UNCHANGED fleet_list
    /\ UNCHANGED <<triageVars, clusterVars, diskVars, analyticsVars>>

\* After the loop (lines 131-137): concat, cluster, store.  An exception of
\* process_forensic_clusters leaves the session state as it was.
SyncFinish ==
    /\ sync.pc = "loop"
    /\ sync.i > Len(fleet_list)
    /\ \E master_df \in {ConcatFrames(sync.all_data)} :
       \E res \in {process_forensic_clusters(master_df)} :
          IF sync.all_data = <<>>
          THEN /\ sync' = [NoSync EXCEPT !.status = "no_data",
                                         !.log = sync.log]
               /\ UNCHANGED <<forensic_data, total_count>>
          ELSE IF res.raised
          THEN /\ sync' = [NoSync EXCEPT !.status = "raised",
                                         !.log = sync.log]
               /\ UNCHANGED <<forensic_data, total_count>>
          ELSE /\ sync' = [NoSync EXCEPT !.status = "complete",
                                         !.log = sync.log]
               /\ forensic_data' = [set |-> TRUE, rows |-> res.rows]
               /\ total_count' = Len(master_df)
    /\ UNCHANGED fleet_list
    /\ UNCHANGED <<triageVars, clusterVars, diskVars, analyticsVars>>

FleetSpecInit ==
    TriageIdle /\ ClusterIdle /\ DiskInit /\ FleetInit /\ AnalyticsIdle

FleetNext ==
    \/ Tick
    \/ \E new_host \in Hosts \cup {<<>>} : AddToFleet(new_host)
    \/ \E i \in 0..(Len(fleet_list) - 1) : Remove(i)
    \/ SyncStart
    \/ SyncHost
    \/ SyncFinish

SpecFleet == FleetSpecInit /\ [][FleetNext]_vars

-----------------------------------------------------------------------------
(* SpecMerge: the two mergers on a folder of export batches.                *)

\* Rows of a batch: timestamps that parse, one that does not, and levels
\* inside and outside the forensic selection.
MergeRows ==
    [TimeCreated      : {"2/1/2026 8:00:00 AM", "2/2/2026 8:00:00 AM",
                         "not a date"},
     Id               : {7},
     LevelDisplayName : {"Error", "Information"},
     Message          : {<<"service">>}]

Batches == SeqsUpTo(MergeRows, MaxBatchRows) \ {<<>>}

BatchName(log) ==
    NowStamp([day |-> 1, minute |-> 1]) \o <<"_", log, "_Filtered.csv">>

\* A host folder with no batch, one batch or two.
MergeFolders ==
    {EmptyDir}
        \cup {WriteFile(EmptyDir, BatchName("Application"), a) : a \in Batches}
        \cup {WriteFile(WriteFile(EmptyDir, BatchName("Application"), a),
                        BatchName("System"), b) : a, b \in Batches}

MergeInit ==
    /\ fs \in {PutDir([d \in {} |-> EmptyDir], TARGET_HOST, files) :
                  files \in MergeFolders}
    /\ now = [day |-> 1, minute |-> 1]
    /\ call = NoCall
    /\ history = {}
    /\ budget = [calls |-> 0, faults |-> 0]
    /\ timeline = NoTimeline
    /\ score = NoScore
    /\ TriageIdle /\ ClusterIdle /\ FleetInit

\* engine.get_forensics(folder) on the host's folder.
GetForensics ==
    /\ \E t \in {get_forensics(Files(fs, TARGET_HOST))} :
          timeline' = [op |-> "get_forensics", none |-> t.none,
                       master |-> t.rows, rows |-> t.rows]
    /\ UNCHANGED <<score, triageVars, clusterVars, diskVars, fleetVars>>

\* generate_forensic_timeline(host_dir): merges, and saves what it returns.
GenerateForensicTimeline ==
    /\ \E t \in {generate_forensic_timeline(Files(fs, TARGET_HOST))} :
          /\ timeline' = [op |-> "generate_forensic_timeline",
                          none |-> t.none, master |-> t.master,
                          rows |-> t.rows]
          /\ fs' = IF t.none THEN fs
                   ELSE PutDir(fs, TARGET_HOST,
                               WriteFile(Files(fs, TARGET_HOST),
                                         <<"Master_Forensic_Timeline.csv">>,
                                         t.rows))
    /\ UNCHANGED <<now, call, history, budget, score>>
    /\ UNCHANGED <<triageVars, clusterVars, fleetVars>>

MergeNext == GetForensics \/ GenerateForensicTimeline

SpecMerge == MergeInit /\ [][MergeNext]_vars

-----------------------------------------------------------------------------
(* SpecScore: the two health computations on a cluster list and a frame.    *)

\* A run of n equal rows.
Repeat(r, n) == [i \in 1..n |-> r]

ClusterOf(p) ==
    [Hostname |-> <<"ws7">>, Id |-> 7, LevelDisplayName |-> "Error",
     Message |-> <<"service">>, Total_Count |-> 1, Priority |-> p]

RecordOf(level) ==
    [TimeCreated |-> 10, Id |-> 7, LevelDisplayName |-> level,
     Message |-> <<"service">>, Log_Source |-> "System"]

\* Stored cluster lists: URGENT clusters, then HIGH and NORMAL ones.
ScoreClusters ==
    {Repeat(ClusterOf("URGENT"), u) \o Repeat(ClusterOf("HIGH"), h)
         \o Repeat(ClusterOf("NORMAL"), n) :
        u \in 0..MaxUrgent, h \in 0..MaxOthers, n \in 0..MaxOthers}

\* Forensic frames: Error records, then Warning and Critical ones.
ScoreFrames ==
    {Repeat(RecordOf("Error"), e) \o Repeat(RecordOf("Warning"), w)
         \o Repeat(RecordOf("Critical"), c) :
        e \in 0..MaxErrors, w \in 0..MaxOthers, c \in 0..MaxOthers}

\* Either a stored cluster list waits for display, or a frame for the advisor.
ScoreInit ==
    /\ \/ /\ forensic_data \in [set : {TRUE}, rows : ScoreClusters]
          /\ df = <<>>
       \/ /\ forensic_data = [set |-> FALSE, rows |-> <<>>]
          /\ df \in ScoreFrames
    /\ fleet_list = <<>>
    /\ total_count = 0
    /\ sync = NoSync
    /\ clustered = [done |-> FALSE, raised |-> FALSE, rows |-> <<>>]
    /\ TriageIdle /\ DiskInit /\ AnalyticsIdle

\* The results display of the dashboard (lines 140-148).
Stability ==
    /\ forensic_data.set
    /\ score' = [op |-> "stability", value |-> stability(forensic_data.rows)]
    /\ UNCHANGED <<timeline, triageVars, clusterVars, diskVars, fleetVars>>

\* expert_remediation_advisor(forensic_df).
ExpertRemediationAdvisor ==
    /\ ~forensic_data.set
    /\ score' = [op |-> "expert_remediation_advisor",
                 value |-> health_score(df)]
    /\ UNCHANGED <<timeline, triageVars, clusterVars, diskVars, fleetVars>>

ScoreNext == Stability \/ ExpertRemediationAdvisor

SpecScore == ScoreInit /\ [][ScoreNext]_vars

-----------------------------------------------------------------------------
(* SpecShared: run_collection for two hosts whose identifiers differ in a   *)
(* dot and an underscore.                                                   *)

\* An address-like identifier and a name that spells it with an underscore.
LookAlikes == { <<"db", ".", "1">>, <<"db", "_", "1">> }

SharedInit ==
    TriageIdle /\ ClusterIdle /\ DiskInit /\ FleetInit /\ AnalyticsIdle

SharedNext ==
    \/ Tick
    \/ \E host \in LookAlikes : RunCollection(host)

SpecShared == SharedInit /\ [][SharedNext]_vars

-----------------------------------------------------------------------------
(* SpecManager: the Fleet Manager tab alone, with more hosts to type.       *)

\* The texts typed into "Add Host": the fleet's hosts and some look-alikes.
TypedHosts == Hosts \cup LookAlikes \cup { <<"ws7", ".", "1">>, <<"db">> }

ManagerNext ==
    \/ \E new_host \in TypedHosts \cup {<<>>} : AddToFleet(new_host)
    \/ \E i \in 0..(Len(fleet_list) - 1) : Remove(i)

SpecManager == FleetSpecInit /\ [][ManagerNext]_vars

-----------------------------------------------------------------------------
(* SpecArchive: one host collected again and again as the days pass.        *)

\* The host whose directory is watched: it offers every channel, so that a
\* second run of a day is skipped and the first run of the next day fetches.
ArchivedHost == <<"db", ".", "1">>

ArchiveNext ==
    \/ Tick
    \/ RunCollection(ArchivedHost)

SpecArchive == SharedInit /\ [][ArchiveNext]_vars

-----------------------------------------------------------------------------
(* Claims.                                                                 *)

\* The phrases and keywords as the claims list them, on lower-cased text.
ClaimNoise(m) ==
    LET t == Lower(Str(m))
    IN  \/ Contains(t, <<"vss service is shutting down">>)
        \/ Contains(t, <<"idle", " ", "timeout">>)
        \/ Contains(t, <<"successfully">>)
        \/ Contains(t, <<"entering sleep">>)
        \/ Contains(t, <<"hibernate from sleep">>)

ClaimKiller(m) ==
    LET t == Lower(Str(m))
    IN  \/ Contains(t, <<"stopped">>)
        \/ Contains(t, <<"failed">>)
        \/ Contains(t, <<"denied">>)
        \/ Contains(t, <<"critical">>)
        \/ Contains(t, <<"aborted">>)
        \/ Contains(t, <<"disk", " ", "error">>)

\* C1 (noise override): whatever the level, a message whose lower-cased text
\* contains a noise phrase is classified NORMAL, also when it contains a
\* killer keyword as well.
C1_NoiseOverride ==
    (priority # "none" /\ ClaimNoise(row.Message)) => priority = "NORMAL"

\* A Critical row with a noise phrase and a killer keyword, classified NORMAL.
C1_Witness ==
    /\ priority = "NORMAL"
    /\ row.LevelDisplayName = "Critical"
    /\ ClaimNoise(row.Message)
    /\ ClaimKiller(row.Message)

\* C2 (killer override): with no noise phrase in the message, level Critical
\* or a killer keyword in the lower-cased message gives URGENT, whatever the
\* reported level.
C2_KillerOverride ==
    (/\ priority # "none"
     /\ ~ClaimNoise(row.Message)
     /\ (row.LevelDisplayName = "Critical" \/ ClaimKiller(row.Message)))
    => priority = "URGENT"

\* An Information row whose message holds a killer keyword written in
\* capitals, classified URGENT.
C2_Witness ==
    /\ priority = "URGENT"
    /\ row.LevelDisplayName = "Information"
    /\ Contains(row.Message, <<"FAILED">>)

\* C3 (totality and level mapping): the result is one of the four
\* priorities; with no noise phrase, no killer keyword and a level other
\* than Critical it is HIGH for Error, MEDIUM for Warning, NORMAL otherwise.
C3_TotalLevelMapping ==
    priority # "none" =>
        /\ priority \in Priorities
        /\ (/\ ~ClaimNoise(row.Message)
            /\ ~ClaimKiller(row.Message)
            /\ row.LevelDisplayName # "Critical")
           => priority = (CASE row.LevelDisplayName = "Error"   -> "HIGH"
                            [] row.LevelDisplayName = "Warning" -> "MEDIUM"
                            [] OTHER                            -> "NORMAL")

\* A Warning row without noise phrase or killer keyword, classified MEDIUM.
C3_Witness ==
    /\ priority = "MEDIUM"
    /\ row.LevelDisplayName = "Warning"
    /\ ~ClaimNoise(row.Message)
    /\ ~ClaimKiller(row.Message)

\* The order C5 states, on the clusters' priorities and counts.
Rank(p) ==
    CASE p = "URGENT" -> 1 [] p = "HIGH" -> 2 [] p = "MEDIUM" -> 3
      [] p = "NORMAL" -> 4

SortsBeforeClaim(a, b) ==
    \/ Rank(a.Priority) < Rank(b.Priority)
    \/ Rank(a.Priority) = Rank(b.Priority) /\ a.Total_Count > b.Total_Count

\* The sum of the clusters' occurrence counts.
RECURSIVE SumCounts(_)
SumCounts(rows) ==
    IF rows = <<>> THEN 0 ELSE Head(rows).Total_Count + SumCounts(Tail(rows))

\* C4 (partition): process_forensic_clusters returns clusters such that
\* every input record, also one with a missing Message or level, has its
\* key in exactly one cluster, no two clusters share a key, every count is
\* at least 1 and the counts add up to the number of input records.
C4_Partition ==
    clustered.done =>
        /\ \A i \in 1..Len(df) :
              Cardinality({j \in 1..Len(clustered.rows) :
                              GroupKey(clustered.rows[j]) = GroupKey(df[i])}) = 1
        /\ \A j, k \in 1..Len(clustered.rows) :
              GroupKey(clustered.rows[j]) = GroupKey(clustered.rows[k]) => j = k
        /\ \A j \in 1..Len(clustered.rows) : clustered.rows[j].Total_Count >= 1
        /\ SumCounts(clustered.rows) = Len(df)

\* C5 (cluster ordering): in the returned list a cluster of a priority that
\* ranks earlier (URGENT, HIGH, MEDIUM, NORMAL) stands before one of a later
\* priority, and of two clusters of one priority the one with the greater
\* count stands first.
C5_ClusterOrdering ==
    (clustered.done /\ ~clustered.raised) =>
        \A j, k \in 1..Len(clustered.rows) :
            SortsBeforeClaim(clustered.rows[j], clustered.rows[k]) => j < k

\* Two clusters of one priority returned in the reverse of the order the
\* grouping produced them in, the greater count first.
C5_Witness ==
    /\ clustered.done /\ ~clustered.raised
    /\ Len(clustered.rows) = 2
    /\ clustered.rows[1].Priority = clustered.rows[2].Priority
    /\ clustered.rows[1].Total_Count > clustered.rows[2].Total_Count
    /\ KeyLess(GroupKey(clustered.rows[2]), GroupKey(clustered.rows[1]))

\* The channels of the list of the collector that was called.
ChannelList(op) ==
    IF op = "run_collection" THEN Range(log_types) ELSE Range(script_log_types)

\* C6 (same-day idempotence): a second run_collection for a host on the day
\* of an earlier successful one makes no staging copy, invokes no
\* extraction and leaves the merged timeline of get_forensics as it was,
\* for every host.
C6_SameDayIdempotent ==
    (call.op = "run_collection" /\ call.rerun) =>
        /\ call.copied = {}
        /\ call.extracted = {}
        /\ call.timeline_same

\* C7 (staging cleanup): when run_collection or process_logs_with_timestamps
\* is done with its channels, no staged .evtx copy lies in the host's cache
\* directory, whether copy and extraction succeeded or failed.
C7_StagingCleanup ==
    call.op # "none" => Staging(Files(fs, call.folder)) = {}

\* C8 (channel failure isolation): when the copy or the extraction of one
\* channel fails in a run of either collector, nothing is raised out of
\* the run and every channel of the list that the host has is attempted
\* (or skipped as collected already).
C8_FailureIsolation ==
    (call.op # "none" /\ call.failed # {}) =>
        /\ ~call.raised
        /\ (ChannelList(call.op) \cap RemoteLogs(call.host))
               \subseteq (call.attempted \cup call.skipped)

\* The rows of a frame that carry the host's name.
RowsOf(frame, host) == {i \in 1..Len(frame) : frame[i].Hostname = host}

\* What C9 says of one pass of the fleet loop: run_collection returned the
\* failure with the reachability message, and no record of the host is in
\* the frames collected by the loop or in the clusters the sync stored.
Excluded(e) ==
    /\ ~e.success
    /\ e.result = <<"Unreachable">>
    /\ e.msg = "Cannot connect"
    /\ RowsOf(ConcatFrames(sync.all_data), e.host) = {}
    /\ sync.status = "complete" => RowsOf(forensic_data.rows, e.host) = {}

C10_FleetRunCompletes ==
    \A k \in 1..Len(sync.log) :
        (~sync.log[k].success \/ sync.log[k].none) => ~sync.log[k].raised

\* The cells of a merged row that come from the batch.
Core(r) ==
    [TimeCreated |-> r.TimeCreated, Id |-> r.Id,
     LevelDisplayName |-> r.LevelDisplayName, Message |-> r.Message]

\* The records of a folder's batches, timestamps parsed, in listing order.
BatchRecords(files) ==
    ParseTimes(ConcatFiles(files,
        SelectSeq(listdir(files), LAMBDA f : EndsWith(f, <<"_Filtered.csv">>))))

Occurrences(frame, v) == Cardinality({i \in 1..Len(frame) : Core(frame[i]) = v})

NullsLast(frame) ==
    \A i, j \in 1..Len(frame) :
        (frame[i].TimeCreated = NaT /\ frame[j].TimeCreated # NaT) => j < i

\* C11 (null-timestamp tolerance): a merge of a folder's batches keeps every
\* record, one with an unparsable timestamp as a record with a null
\* timestamp, and places the null-timestamp records behind all the others,
\* in get_forensics (descending) and in generate_forensic_timeline
\* (ascending, also in the forensic rows it returns).
C11_NullTimestampsLast ==
    (timeline.op # "none" /\ ~timeline.none) =>
        LET recs == BatchRecords(Files(fs, TARGET_HOST))
        IN  /\ Len(timeline.master) = Len(recs)
            /\ \A k \in 1..Len(recs) :
                  Occurrences(timeline.master, recs[k]) = Occurrences(recs, recs[k])
            /\ NullsLast(timeline.master)
            /\ NullsLast(timeline.rows)

\* An ascending merge whose first batch begins with an unparsable timestamp:
\* the record is kept, null, behind a record with a parsed timestamp.
C11_Witness ==
    /\ timeline.op = "generate_forensic_timeline"
    /\ Len(timeline.master) >= 3
    /\ BatchRecords(Files(fs, TARGET_HOST))[1].TimeCreated = NaT
    /\ timeline.master[1].TimeCreated # NaT
    /\ timeline.master[Len(timeline.master)].TimeCreated = NaT

\* The number of rows of a frame whose column holds the value.
Urgents(clusters) ==
    Cardinality({i \in 1..Len(clusters) : clusters[i].Priority = "URGENT"})

LevelCount(frame, level) ==
    Cardinality({i \in 1..Len(frame) : frame[i].LevelDisplayName = level})

\* C12 (health score bounds and monotonicity): the Fleet Stability Index is
\* max(0, 100 - 10 * URGENT clusters), an integer of 0..100 that one more
\* URGENT cluster never raises; the advisor's health score is an integer of
\* 0..100 that one more Error record never raises.
C12_ScoreBounds ==
    /\ score.op = "stability" =>
          /\ score.value = Max(0, 100 - 10 * Urgents(forensic_data.rows))
          /\ score.value \in 0..100
          /\ stability(Append(forensic_data.rows, ClusterOf("URGENT")))
                 <= score.value
    /\ score.op = "expert_remediation_advisor" =>
          /\ score.value \in 0..100
          /\ health_score(Append(df, RecordOf("Error"))) <= score.value

\* More URGENT clusters than the index has tens: the index is at its floor.
C12_Witness ==
    /\ score.op = "stability"
    /\ Urgents(forensic_data.rows) > 10
    /\ score.value = 0

\* C13 as stated (raw-event policy): the advisor's score is
\* max(0, 100 - 5 * Error records - 20 * Critical records), and records of
\* another level, Warning for one, leave it alone.
C13_RawEventPolicy ==
    score.op = "expert_remediation_advisor" =>
        score.value = Max(0, 100 - 5 * LevelCount(df, "Error")
                                 - 20 * LevelCount(df, "Critical"))

\* C13, amended: the advisor's score is
\* max(0, 100 - 5 * Error records - 2 * Warning records); records of
\* another level, Critical for one, leave it alone.
C13_ErrorWarningPolicy ==
    score.op = "expert_remediation_advisor" =>
        score.value = Max(0, 100 - 5 * LevelCount(df, "Error")
                                 - 2 * LevelCount(df, "Warning"))

\* A frame with a Warning and a Critical record and no Error: the Warning
\* alone has cost two points.
C13_Witness ==
    /\ score.op = "expert_remediation_advisor"
    /\ LevelCount(df, "Error") = 0
    /\ LevelCount(df, "Warning") = 1
    /\ LevelCount(df, "Critical") >= 1
    /\ score.value = 98

\* The export batches lying in a directory.
BatchFiles(files) == {f \in DOMAIN files : EndsWith(f, <<"_Filtered.csv">>)}

\* C14 (export batches are immutable): no step deletes a batch file or
\* changes its content, and no collector call writes a batch file under
\* the name of one that exists, in the minute of the earlier run or later.
C14_BatchesImmutable ==
    [][/\ \A d \in DOMAIN fs : \A f \in BatchFiles(fs[d]) :
             /\ d \in DOMAIN fs'
             /\ f \in DOMAIN fs'[d]
             /\ fs'[d][f] = fs[d][f]
       /\ call' # call => call'.overwritten = {}]_vars

\* C15 (disjoint host caches): the cache directory get_host_dir gives a
\* host is the directory of no other host identifier, so a run for one host
\* never works on the directory a run for another host has worked on.
C15_DisjointHostCaches ==
    call.op = "run_collection" =>
        \A h \in {e[1] : e \in history} :
            h # call.host => get_host_dir(h) # call.folder

\* C16 (cache decision): run_collection returns success with the host's
\* cache directory, without probing, copying or extracting, exactly when
\* the directory holds at least 4 files named <today>..._Filtered.csv; with
\* fewer it goes on to the reachability probe.
C16_CacheDecision ==
    call.op = "run_collection" =>
        /\ call.cache_hit <=> call.todays >= 4
        /\ call.cache_hit =>
              /\ call.success /\ call.result = call.folder
              /\ ~call.probed
              /\ call.copied = {} /\ call.extracted = {}
        /\ ~call.cache_hit => call.probed

\* A call served from exactly four batches of today while the host offers
\* no share.
C16_Witness ==
    /\ call.op = "run_collection"
    /\ call.cache_hit
    /\ call.todays = 4
    /\ ~call.reachable

\* The batch files of a directory stamped with the clock's day, and the
\* required channels (the four of run_collection) that have one.
TodaysBatches(files, clock) ==
    {f \in BatchFiles(files) : f[1] = DayStamp(clock)}

Covered(files, clock) ==
    {log \in {"Application", "Security", "Setup", "System"} :
        \E f \in TodaysBatches(files, clock) : f[Len(f) - 1] = log}

\* A directory on which the cache test is satisfied while a required
\* channel has no batch of today.
Masked(files, clock) ==
    /\ cache_satisfied(files, clock)
    /\ Covered(files, clock) # {"Application", "Security", "Setup", "System"}

\* C17 (weak cache invariant): the cache test can be satisfied while a
\* required channel has no batch of today (the state C17_Witness describes
\* is reached); whenever that is so, the batches of today that were counted
\* outnumber the required channels they cover.
C17_WeakCache ==
    \A d \in DOMAIN fs :
        Masked(fs[d], now) =>
            Cardinality(TodaysBatches(fs[d], now))
                > Cardinality(Covered(fs[d], now))

\* After two runs of one day for a host without a Setup channel: the cache
\* test is satisfied by two batches each of the other channels.
C17_Witness ==
    \E d \in DOMAIN fs :
        /\ Masked(fs[d], now)
        /\ "Setup" \notin Covered(fs[d], now)
        /\ call.op = "run_collection" /\ call.folder = d /\ call.rerun

\* C18 (per-channel skip): a run of either collector copies and extracts no
\* channel that had a batch of today in the host's directory when the run
\* began.
C18_PerChannelSkip ==
    call.op # "none" =>
        (call.copied \cup call.extracted) \cap call.fresh = {}

\* The number of records in the batch files S of a directory.
RECURSIVE RecordCount(_, _)
RecordCount(files, S) ==
    IF S = {} THEN 0
    ELSE LET f == CHOOSE g \in S : TRUE
         IN  Len(files[f]) + RecordCount(files, S \ {f})

\* get_forensics merges the records of every batch file of the directory,
\* whatever the day in its name.
AllMerged(files) ==
    BatchFiles(files) # {} =>
        \E t \in {get_forensics(files)} :
            /\ ~t.none
            /\ Len(t.rows) = RecordCount(files, BatchFiles(files))
            /\ \A f \in BatchFiles(files) : \A k \in 1..Len(files[f]) :
                  \E i \in 1..Len(t.rows) :
                      /\ t.rows[i].Id = files[f][k].Id
                      /\ t.rows[i].Message = files[f][k].Message
                      /\ t.rows[i].TimeCreated
                            = to_datetime(files[f][k].TimeCreated)

\* A step keeps every batch file, those of earlier days with their content,
\* and a change of day leaves every directory's merged timeline as it was.
StaleKept ==
    \/ fs' = fs
    \/ /\ \A d \in DOMAIN fs : \A f \in BatchFiles(fs[d]) :
             /\ d \in DOMAIN fs' /\ f \in DOMAIN fs'[d]
             /\ f[1] # DayStamp(now) => fs'[d][f] = fs[d][f]
       /\ now'.day # now.day =>
             /\ DOMAIN fs' = DOMAIN fs
             /\ \A d \in DOMAIN fs :
                   get_forensics(fs'[d]) = get_forensics(fs[d])

\* C19 (stale batches stay in the timeline): over runs on several days every
\* batch file written stays on disk, the batches of earlier days untouched,
\* get_forensics merges the records of all of them, and the passage of a
\* day changes nothing of what is merged.
C19_StaleBatchesMerged ==
    /\ [](\A d \in DOMAIN fs : AllMerged(fs[d]))
    /\ [][StaleKept]_vars

\* The second day, after a run on each day: batches of both days lie in the
\* directory and the merged timeline holds the records of all of them.
C19_Witness ==
    \E d \in DOMAIN fs :
        /\ now.day = 2
        /\ \E f \in BatchFiles(fs[d]) : f[1] = DayStamp([day |-> 1])
        /\ \E f \in BatchFiles(fs[d]) : f[1] = DayStamp([day |-> 2])
        /\ Len(get_forensics(fs[d]).rows) >= 6

\* The list holds no empty identifier and no identifier twice.
FleetListOk ==
    /\ \A k \in 1..Len(fleet_list) : fleet_list[k] # <<>>
    /\ \A j, k \in 1..Len(fleet_list) : fleet_list[j] = fleet_list[k] => j = k

\* later is earlier without its entry k, the other entries in their order.
Without(earlier, k, later) ==
    /\ Len(later) = Len(earlier) - 1
    /\ \A j \in 1..Len(later) :
          later[j] = IF j < k THEN earlier[j] ELSE earlier[j + 1]

\* What one click does to the list.
FleetStep ==
    /\ \A h \in Range(fleet_list) \cup {<<>>} :
          AddToFleet(h) => fleet_list' = fleet_list
    /\ \A h \in TypedHosts \ Range(fleet_list) :
          AddToFleet(h) => fleet_list' = Append(fleet_list, h)
    /\ \A i \in 0..(Len(fleet_list) - 1) :
          Remove(i) => Without(fleet_list, i + 1, fleet_list')
    /\ \/ fleet_list' = fleet_list
       \/ \E h \in TypedHosts \ Range(fleet_list) :
              fleet_list' = Append(fleet_list, h)
       \/ \E k \in 1..Len(fleet_list) : Without(fleet_list, k, fleet_list')

\* C20 (fleet list invariant): after any sequence of "Add to Fleet" and
\* "Remove" clicks the list holds no empty identifier and no identifier
\* twice; adding a listed host or an empty text leaves the list as it was,
\* and removing entry i removes that entry only and keeps the others' order.
C20_FleetListInvariant ==
    /\ []FleetListOk
    /\ [][FleetStep]_vars

\* Four hosts have been added one after the other and are listed, the
\* look-alikes "db.1" and "db_1" among them.
C20_Witness ==
    /\ Len(fleet_list) = 4
    /\ LookAlikes \subseteq Range(fleet_list)
    /\ fleet_list[1] = <<"ws7">>

\* The stored pair: nothing stored and a count of 0, or a cluster list and
\* the count of the records it was made from, which is at least the sum of
\* the clusters' counts.
ResultPair ==
    IF forensic_data.set
    THEN /\ forensic_data.rows # <<>>
         /\ total_count >= SumCounts(forensic_data.rows)
         /\ SumCounts(forensic_data.rows) >= 1
    ELSE /\ forensic_data.rows = <<>>
         /\ total_count = 0

\* What one step does to the stored pair: only the end of a sync that
\* completes writes it, both values from the same merged frame; a sync that
\* ends without data, or with an exception, leaves both as they were.
ResultStep ==
    /\ (sync.pc = "loop" /\ sync'.status = "complete") =>
          \E master_df \in {ConcatFrames(sync.all_data)} :
              /\ sync.all_data # <<>>
              /\ total_count' = Len(master_df)
              /\ forensic_data' =
                    [set  |-> TRUE,
                     rows |-> process_forensic_clusters(master_df).rows]
    /\ ~(sync.pc = "loop" /\ sync'.status = "complete") =>
          UNCHANGED <<forensic_data, total_count>>
    /\ (sync.pc = "loop" /\ sync'.status = "no_data") =>
          /\ sync.all_data = <<>>
          /\ UNCHANGED <<forensic_data, total_count>>

\* C21 (session result consistency): forensic_data and total_count are
\* written together, by the end of a fleet sync that found data, and
\* total_count is then the number of merged records forensic_data was made
\* from; a sync that finds no data for any host leaves both unchanged, so
\* the results of the sync before it stay stored.
C21_SessionResultConsistency ==
    /\ []ResultPair
    /\ [][ResultStep]_vars

\* A sync has just ended without data for any host while the clusters and
\* the count of an earlier, completed sync are still stored.
C21_Witness ==
    /\ sync.pc = "idle"
    /\ sync.status = "no_data"
    /\ sync.log # <<>>
    /\ forensic_data.set
    /\ total_count >= 1
    /\ total_count >= SumCounts(forensic_data.rows)

=============================================================================
